---- MODULE Spec2Model ----
(***************************************************************************)
(* The Flask backend of retail-t2data (src/backend/app.py): the HTTP       *)
(* handlers created by create_app, the session store they share, the       *)
(* per-route response cache, the loops of the chat and test_query handlers *)
(* over the agent runtime's event stream, the lines the handlers and the   *)
(* metadata gateway (src/backend/utils.py) log, and the assembly of the    *)
(* agent's prompt at start-up (src/data_agent/instructions.py).            *)
(*                                                                         *)
(* Strings are sequences of symbols.  A symbol is one character of an      *)
(* input ("u", "/", a newline) or one literal of the source ("None",       *)
(* "N/A", the apology prefix), so Python's + and f-strings are \o.         *)
(* Python's None is the one-symbol sequence None, which no input and no    *)
(* literal contains.                                                       *)
(***************************************************************************)
EXTENDS Integers, Sequences, FiniteSets, TLC

VARIABLES
  runner,                \* app.runner: "Runner" or "None"; "unbound" before create_app
  session_service,       \* app.session_service: "unset", "db" or "memory"
  genai_types,           \* app.genai_types: "unset" or "set"
  debug,                 \* app.debug: whether the server runs in Flask's debug mode
  build,                 \* _build_master_instructions: its position and its locals
  CACHED_INSTRUCTIONS,   \* data_agent.instructions.CACHED_INSTRUCTIONS
  instructions,          \* what return_instructions_bigquery returned last; None before
  sessions,              \* the Session Store: a set of [app_name, user_id, id]
  pc,                    \* "idle"; "consuming": chat_handler is suspended in its async
                         \* for; "testing": test_query is suspended in its own
  user_id,               \* chat_handler's local user_id
  session_id,            \* chat_handler's local session_id
  final_response_parts,  \* chat_handler's local list of {role, content}
  llm_response_text,     \* chat_handler's local text accumulator
  kpi_data,              \* chat_handler's KPI record
  streamLeft,            \* events the agent runtime has still to yield
  consumed,              \* events the handler has taken from the stream
  sqlEvents,             \* consumed model events in which SQL was captured
  agentCalls,            \* calls of runner.run_async made for the current request
  test,                  \* test_query's locals generated_sql, agent_error, llm_response
  now,                   \* time.time(), in seconds since the server started
  tablesCache,           \* list_tables' wrapper.cache: url -> [result, timestamp]
  tableDataCache,        \* get_table_data's wrapper.cache
  handlerRuns,           \* runs of the decorated handler made for the current request
  threads,               \* requests to /api/table_data served at the same time
  log,                   \* lines the two loggers wrote for the current request
  req,                   \* the request being answered
  resp                   \* the response to it; NoResp while the handler runs

appVars  == <<runner, session_service, genai_types, debug, build, CACHED_INSTRUCTIONS,
              instructions>>
chatVars == <<pc, user_id, session_id, final_response_parts, llm_response_text,
              kpi_data, streamLeft, consumed, sqlEvents, agentCalls, test>>
cacheVars == <<now, tablesCache, tableDataCache, handlerRuns, threads>>
vars     == <<runner, session_service, genai_types, debug, build, CACHED_INSTRUCTIONS,
              instructions, sessions, pc, user_id,
              session_id, final_response_parts, llm_response_text, kpi_data,
              streamLeft, consumed, sqlEvents, agentCalls, test, now, tablesCache,
              tableDataCache, handlerRuns, threads, log, req, resp>>

----------------------------------------------------------------------------
(* Bounds *)

MaxEvents   == 2     \* longest event stream of one agent run
MaxSessions == 2     \* sessions the store holds before login is no longer tried
MaxClock    == 5400  \* the clock is not advanced past this second
TickStep    == 1800  \* seconds between two moments at which requests arrive
MaxPathLen  == 4     \* longest filepath given to /api/code, in characters
MaxThreads  == 2     \* requests the server handles at the same time

----------------------------------------------------------------------------
(* Python values *)

None == <<"<None>">>

\* bool(v) of a str or None
Truthy(v) == v # None /\ v # <<>>

\* all([...]) over a tuple of such values
AllTruthy(vs) == \A i \in 1..Len(vs) : Truthy(vs[i])

\* [\x00-\x1f\x7f]
ControlChars == {"\n", "\r", "\t"}

\* str(value) for the values a JSON field can hold here
Str(value) == IF value = None THEN <<"None">> ELSE value

\* re.sub(r'[\x00-\x1f\x7f]', '?', value)
SubControl(s) == [i \in 1..Len(s) |-> IF s[i] \in ControlChars THEN "?" ELSE s[i]]

\* the sanitizer with only the newline and the carriage return replaced
sanitize_for_log_newlinesOnly(value) ==
  [i \in 1..Len(Str(value)) |-> IF Str(value)[i] \in {"\n", "\r"} THEN "?" ELSE Str(value)[i]]

sanitize_for_log(value) == SubControl(Str(value))

\* defaultdict(lambda: "N/A"): a key that was never written reads as "N/A"
NA == <<"N/A">>
Get(d, k) == IF k \in DOMAIN d THEN d[k] ELSE NA
Put(d, k, v) == (k :> v) @@ d

\* test_query is not running: its three locals do not exist
NoTest == [generated_sql |-> None, agent_error |-> None, llm_response |-> <<>>]

\* no request is inside the cache wrapper of /api/table_data
NoThreads == <<>>

----------------------------------------------------------------------------
(* Inputs *)

\* what a client puts (or leaves out: None) in a string field of a request
FieldInputs == {None, <<>>, <<"u">>}

\* ids the Session Store hands out, in order of creation
IdSymbols == <<"1", "2", "3", "4", "5", "6">>
SessionIdOf(n) == <<IdSymbols[n]>>
SessionIdInputs == {None, <<>>} \cup {SessionIdOf(n) : n \in 1..MaxSessions}

\* request.get_json(): a JSON object, JSON null (get_json returns None), or
\* a body that is no JSON (get_json raises BadRequest)
NullBody      == [kind |-> "null"]
MalformedBody == [kind |-> "malformed"]

LoginBodies  == {NullBody, MalformedBody}
                  \cup {[kind |-> "object", user_id |-> u] : u \in FieldInputs}
LogoutBodies == {NullBody, MalformedBody}
                  \cup {[kind |-> "object", user_id |-> u, session_id |-> s] :
                          u \in {None, <<"u">>, <<"\n">>}, s \in SessionIdInputs}

\* the 'message' member of a chat body: absent, an object holding 'message',
\* or a JSON value without .get (a string)
MessageInputs == {[kind |-> "absent"], [kind |-> "string"]}
                   \cup {[kind |-> "object", message |-> m] : m \in {<<>>, <<"q">>}}
\* chat bodies: a complete one, and those that differ from it in one member
GoodChatBody == [kind |-> "object", user_id |-> <<"u">>, session_id |-> SessionIdOf(1),
                 message |-> [kind |-> "object", message |-> <<"q">>]]
ChatBodies == {NullBody, MalformedBody}
                \cup {[GoodChatBody EXCEPT !.user_id = u] : u \in FieldInputs}
                \cup {[GoodChatBody EXCEPT !.session_id = x] : x \in {None, <<>>}}
                \cup {[GoodChatBody EXCEPT !.message = m] : m \in MessageInputs}

\* str(e) of the exceptions the agent runtime raises while it is iterated
ExceptionTexts == {<<"boom">>}

\* str(e) of the exception create_session raises
StoreError == <<"database is locked">>

\* str(e) of the exceptions raised while the request body is read
GetJsonError == <<"400 Bad Request: Failed to decode JSON object">>
NoneGetError == <<"'NoneType' object has no attribute 'get'">>
StrGetError  == <<"'str' object has no attribute 'get'">>

----------------------------------------------------------------------------
(* Responses *)

\* a response as a view function or Flask makes it: status, body, and whether
\* it has a Strict-Transport-Security header
Response(status, body) == [status |-> status, body |-> body, hsts |-> FALSE]

NoResp == Response(0, [pending |-> TRUE])

\* lines 138-141: the after_request function
add_hsts_header(response) == [response EXCEPT !.hsts = TRUE]

\* jsonify(body), status
Json(status, body) == add_hsts_header(Response(status, body))

\* an exception that leaves a view function: Flask answers 500 with its own
\* page and runs the after_request functions on it; in debug mode it lets the
\* exception through to the server, whose 500 page no after_request function sees
Unhandled500 ==
  IF debug THEN Response(500, [page |-> <<"500 Internal Server Error">>])
  ELSE add_hsts_header(Response(500, [page |-> <<"500 Internal Server Error">>]))

\* BadRequest raised by get_json outside any try: Flask answers 400 with its own page
BadRequest400 == add_hsts_header(Response(400, [page |-> <<"400 Bad Request">>]))

----------------------------------------------------------------------------
(* Start-up prompt assembly (src/data_agent/instructions.py, utils.py) *)

\* json.dumps of a list whose items are rendered by one symbol each
dumps(xs) == <<"[">> \o xs \o <<"]">>

\* fetch_table_entry_metadata(): the clients cannot be constructed (lines
\* 176-177, outside any try), or a list of the entries that could be read; a
\* failed search or entry is caught inside and only shortens the list
MetadataOutcomes ==
  {[raises |-> TRUE, value |-> <<>>]}
    \cup {[raises |-> FALSE, value |-> v] : v \in { <<>>, <<"meta t">> }}

\* percent_null of a profile row: a number, or a value that is none
Percent(n) == [kind |-> "number", value |-> n]
NoPercent  == [kind |-> "null", value |-> 0]

\* rows the profiles query returns
ProfileRowLists ==
  { <<>>,
    << [column |-> "c1", percent_null |-> Percent(50)] >>,
    << [column |-> "c2", percent_null |-> Percent(95)] >>,
    << [column |-> "c1", percent_null |-> Percent(90)],
       [column |-> "c2", percent_null |-> Percent(91)] >>,
    << [column |-> "c3", percent_null |-> NoPercent] >> }

\* what fetch_bigquery_data_profiles meets: DATA_PROFILES_TABLE_FULL_ID is
\* set or not, bigquery.Client() succeeds or not, the query succeeds or not
ProfileEnvs ==
  {[configured |-> FALSE, client |-> TRUE, query |-> TRUE, rows |-> <<>>],
   [configured |-> TRUE, client |-> FALSE, query |-> TRUE, rows |-> <<>>],
   [configured |-> TRUE, client |-> TRUE, query |-> FALSE, rows |-> <<>>]}
    \cup {[configured |-> TRUE, client |-> TRUE, query |-> TRUE, rows |-> r] :
            r \in ProfileRowLists}

\* lines 101-104: the rows that are kept
KeepProfile(p) == ~(p.percent_null.kind = "number" /\ p.percent_null.value > 90)

\* fetch_bigquery_data_profiles(), lines 65-115
fetch_bigquery_data_profiles(env) ==
  IF ~env.configured THEN [raises |-> FALSE, value |-> <<>>]
  ELSE IF ~env.client THEN [raises |-> TRUE, value |-> <<>>]
  ELSE IF ~env.query THEN [raises |-> FALSE, value |-> <<>>]
  ELSE [raises |-> FALSE, value |-> SelectSeq(env.rows, KeepProfile)]

\* fetch_sample_data_for_tables(): bigquery.Client() raises (line 125), or a
\* list of the tables whose rows could be read
SampleOutcomes ==
  {[raises |-> TRUE, value |-> <<>>]}
    \cup {[raises |-> FALSE, value |-> v] : v \in { <<>>, <<"rows of t">> }}

\* instructions.yaml as lines 121-124 read it: no file or no mapping of
\* strings (raises), or the joined template
TemplateOutcomes ==
  {[raises |-> TRUE, value |-> <<>>]}
    \cup {[raises |-> FALSE, value |-> v] :
            v \in { <<>>,
                    <<"You answer with SQL. ", "{table_metadata}", "{data_profiles}",
                      "{samples}">>,
                    <<"Tables: ", "{table_metadata}">>,
                    <<"Use ", "{dialect}">> }}

Placeholders == {"{table_metadata}", "{data_profiles}", "{samples}", "{dialect}"}

\* str.format with the three keyword arguments of lines 127-131
RECURSIVE format(_, _)
format(template, kw) ==
  IF template = <<>> THEN [raises |-> FALSE, value |-> <<>>]
  ELSE LET h == Head(template)
           rest == format(Tail(template), kw)
       IN IF h \in Placeholders /\ h \notin DOMAIN kw          \* KeyError
            THEN [raises |-> TRUE, value |-> <<>>]
          ELSE IF rest.raises THEN rest
          ELSE [raises |-> FALSE,
                value |-> (IF h \in DOMAIN kw THEN kw[h] ELSE <<h>>) \o rest.value]

\* the assembly has not begun: no local is bound, no fetch was made
BuildStart ==
  [pc |-> "metadata", table_metadata |-> <<>>, data_profiles |-> <<>>, samples |-> <<>>,
   strs |-> [table_metadata |-> <<>>, data_profiles |-> <<>>, samples |-> <<>>],
   template |-> <<>>, final_prompt |-> <<>>, token_count |-> 0,
   fetches |-> <<>>, saved |-> "no", raised |-> "none"]

BuildUnchanged == UNCHANGED <<runner, session_service, genai_types, debug, instructions,
                              sessions, chatVars, cacheVars, log, req, resp>>

\* the except branch with the prompt built so far kept
BuildFails_keepsPrompt(b, step) ==
  /\ build' = [b EXCEPT !.pc = "done", !.raised = step]
  /\ CACHED_INSTRUCTIONS' = <<"partial">> \o b.final_prompt

\* lines 160-167: the except branch; the module-level assignment binds "".
\* b: the locals when step raised
BuildFails(b, step) ==
  /\ build' = [b EXCEPT !.pc = "done", !.raised = step]
  /\ CACHED_INSTRUCTIONS' = <<>>

\* the call of a fetcher is on record
Called(fetch) == [build EXCEPT !.fetches = Append(@, fetch)]

\* line 106
FetchMetadata(outcome) ==
  /\ build.pc = "metadata"
  /\ IF outcome.raises THEN BuildFails(Called("metadata"), "metadata")
     ELSE /\ build' = [Called("metadata") EXCEPT !.pc = "profiles",
                                                 !.table_metadata = outcome.value]
          /\ UNCHANGED CACHED_INSTRUCTIONS
  /\ BuildUnchanged

\* line 109 taken to hold whatever the profiles are
NeedsSamples_always(data_profiles) == TRUE

\* line 109: not data_profiles
NeedsSamples(data_profiles) == data_profiles = <<>>

\* lines 107-109
FetchProfiles(env) ==
  /\ build.pc = "profiles"
  /\ LET data_profiles == fetch_bigquery_data_profiles(env) IN
       IF data_profiles.raises THEN BuildFails(Called("profiles"), "profiles")
       ELSE /\ build' = [Called("profiles") EXCEPT
                           !.pc = IF NeedsSamples(data_profiles.value) THEN "samples" ELSE "dumps",
                           !.data_profiles = data_profiles.value]
            /\ UNCHANGED CACHED_INSTRUCTIONS
  /\ BuildUnchanged

\* lines 110-111
FetchSamples(outcome) ==
  /\ build.pc = "samples"
  /\ IF outcome.raises THEN BuildFails(Called("samples"), "samples")
     ELSE /\ build' = [Called("samples") EXCEPT !.pc = "dumps", !.samples = outcome.value]
          /\ UNCHANGED CACHED_INSTRUCTIONS
  /\ BuildUnchanged

\* lines 114-116; json.dumps raises TypeError on a value that is neither JSON
\* nor a date, which takes a value to be there
Dumps(serializable) ==
  /\ build.pc = "dumps"
  /\ serializable \/ build.table_metadata \o build.samples # <<>> \/ build.data_profiles # <<>>
  /\ IF ~serializable THEN BuildFails(build, "dumps")
     ELSE /\ build' = [build EXCEPT
                         !.pc = "template",
                         !.strs = [table_metadata |-> dumps(build.table_metadata),
                                   data_profiles |->
                                     dumps([i \in 1..Len(build.data_profiles) |->
                                              build.data_profiles[i].column]),
                                   samples |-> dumps(build.samples)]]
          /\ UNCHANGED CACHED_INSTRUCTIONS
  /\ BuildUnchanged

\* lines 119-124
LoadTemplate(outcome) ==
  /\ build.pc = "template"
  /\ IF outcome.raises THEN BuildFails(build, "template")
     ELSE /\ build' = [build EXCEPT !.pc = "format", !.template = outcome.value]
          /\ UNCHANGED CACHED_INSTRUCTIONS
  /\ BuildUnchanged

\* lines 127-131
Interpolate ==
  /\ build.pc = "format"
  /\ LET final_prompt ==
           format(build.template,
                  [k \in {"{table_metadata}", "{data_profiles}", "{samples}"} |->
                     IF k = "{table_metadata}" THEN build.strs.table_metadata
                     ELSE IF k = "{data_profiles}" THEN build.strs.data_profiles
                     ELSE build.strs.samples])
     IN IF final_prompt.raises THEN BuildFails(build, "format")
        ELSE /\ build' = [build EXCEPT !.pc = "save", !.final_prompt = final_prompt.value]
             /\ UNCHANGED CACHED_INSTRUCTIONS
  /\ BuildUnchanged

\* where _save_instructions_for_debugging puts the copy: K_SERVICE is set
\* (Cloud Run) or not
SaveTargets == {"gcs", "local"}

\* _save_instructions_for_debugging without its try: what the upload or the
\* write raises reaches _build_master_instructions
SaveForDebugging_propagates(target, written) ==
  /\ build.pc = "save"
  /\ IF written
       THEN /\ build' = [build EXCEPT !.pc = "tokens", !.saved = target]
            /\ UNCHANGED CACHED_INSTRUCTIONS
       ELSE BuildFails(build, "save")
  /\ BuildUnchanged

\* lines 134-137: _log_prompt_for_debugging and _save_instructions_for_debugging
\* (lines 69-96); both catch what they raise.  written: storage.Client, the
\* upload, or open and write, went through.
SaveForDebugging(target, written) ==
  /\ build.pc = "save"
  /\ build' = [build EXCEPT !.pc = "tokens",
                            !.saved = IF written THEN target ELSE "failed"]
  /\ UNCHANGED CACHED_INSTRUCTIONS
  /\ BuildUnchanged

\* lines 140-146: the token count catches what it raises and is then 0
CountTokens(counted) ==
  /\ build.pc = "tokens"
  /\ build' = [build EXCEPT !.pc = "kpis",
                            !.token_count = IF counted THEN Len(build.final_prompt) ELSE 0]
  /\ UNCHANGED CACHED_INSTRUCTIONS
  /\ BuildUnchanged

\* lines 148-158 and 167
LogKpis(logged) ==
  /\ build.pc = "kpis"
  /\ IF ~logged THEN BuildFails(build, "kpis")
     ELSE /\ build' = [build EXCEPT !.pc = "done"]
          /\ CACHED_INSTRUCTIONS' = build.final_prompt
  /\ BuildUnchanged

\* return_instructions_bigquery() answering from a rebuilt prompt
return_instructions_rebuilt == <<"rebuilt">> \o CACHED_INSTRUCTIONS

\* return_instructions_bigquery(), lines 170-173
return_instructions_bigquery == CACHED_INSTRUCTIONS

\* a caller asks for the instructions; the module is imported, so line 167 ran
ReturnInstructions ==
  /\ build.pc = "done"
  /\ instructions' = return_instructions_bigquery
  /\ UNCHANGED <<runner, session_service, genai_types, debug, build, CACHED_INSTRUCTIONS,
                 sessions, chatVars, cacheVars, log, req, resp>>

\* the assembly as it ends when the warehouse is empty and nothing fails
BuildDone ==
  [BuildStart EXCEPT
     !.pc = "done",
     !.strs = [table_metadata |-> dumps(<<>>), data_profiles |-> dumps(<<>>),
               samples |-> dumps(<<>>)],
     !.template = <<"Tables: ", "{table_metadata}">>,
     !.final_prompt = <<"Tables: ">> \o dumps(<<>>),
     !.token_count = Len(<<"Tables: ">> \o dumps(<<>>)),
     !.fetches = <<"metadata", "profiles", "samples">>,
     !.saved = "local"]

----------------------------------------------------------------------------
(* create_app *)

APP_NAME == <<"data_agent_chatbot">>

\* The attributes create_app leaves on app.  importsOk: all([Runner,
\* InMemorySessionService, root_agent]); dbOk: the sqlite engine connects;
\* runnerOk: Runner(...) does not raise.
create_app(importsOk, dbOk, runnerOk) ==
  IF importsOk /\ runnerOk
    THEN [runner |-> "Runner",
          session_service |-> IF dbOk THEN "db" ELSE "memory",
          genai_types |-> "set"]
    ELSE [runner |-> "None", session_service |-> "unset", genai_types |-> "unset"]

Init ==
  /\ \E importsOk, dbOk, runnerOk \in BOOLEAN :
       LET app == create_app(importsOk, dbOk, runnerOk) IN
         /\ runner = app.runner
         /\ session_service = app.session_service
         /\ genai_types = app.genai_types
  /\ debug = TRUE                     \* line 358: FLASK_DEBUG defaults to 'True'
  /\ build = BuildDone
  /\ CACHED_INSTRUCTIONS = BuildDone.final_prompt
  /\ instructions = None
  /\ sessions = {}
  /\ pc = "idle"
  /\ user_id = None
  /\ session_id = None
  /\ final_response_parts = <<>>
  /\ llm_response_text = <<>>
  /\ kpi_data = <<>>
  /\ streamLeft = 0
  /\ consumed = 0
  /\ sqlEvents = 0
  /\ agentCalls = 0
  /\ test = NoTest
  /\ now = 0
  /\ tablesCache = <<>>
  /\ tableDataCache = <<>>
  /\ handlerRuns = 0
  /\ threads = NoThreads
  /\ log = <<>>
  /\ req = [route |-> "none"]
  /\ resp = NoResp

\* chat_handler is not running: its locals and its KPI record do not exist
NoChat ==
  /\ pc' = "idle"
  /\ user_id' = None
  /\ session_id' = None
  /\ final_response_parts' = <<>>
  /\ llm_response_text' = <<>>
  /\ kpi_data' = <<>>
  /\ streamLeft' = 0
  /\ consumed' = 0
  /\ sqlEvents' = 0
  /\ agentCalls' = 0
  /\ test' = NoTest

----------------------------------------------------------------------------
(* /api/login *)

\* line 151: the guard's answer when the store or the runner is falsy
LoginNotInitialized == Json(500, [error |-> <<"Session service not initialized.">>])

\* create_session called without the runner's application name
NewSession_otherApp(store, user) ==
  [app_name |-> <<"default">>, user_id |-> user, id |-> SessionIdOf(Cardinality(store) + 1)]

\* session_service.create_session(app_name=runner.app_name, user_id=user_id) on
\* a store that holds `store`: the session it adds
NewSession(store, user) ==
  [app_name |-> APP_NAME, user_id |-> user, id |-> SessionIdOf(Cardinality(store) + 1)]

\* login(): the response and the store it leaves.  created: create_session
\* returns (TRUE) or raises (FALSE).
login(body, created) ==
  IF session_service = "unset"                               \* AttributeError, line 148
    THEN [resp |-> Unhandled500, sessions |-> sessions, log |-> <<>>]
  ELSE IF runner = "None"
    THEN [resp |-> LoginNotInitialized, sessions |-> sessions, log |-> <<>>]
  ELSE IF body.kind = "malformed"                            \* get_json raises
    THEN [resp |-> BadRequest400, sessions |-> sessions, log |-> <<>>]
  ELSE IF body.kind = "null"                                 \* None.get, line 154
    THEN [resp |-> Unhandled500, sessions |-> sessions, log |-> <<>>]
  ELSE LET uid == sanitize_for_log(body.user_id) IN
    IF ~Truthy(uid)
      THEN [resp |-> Json(400, [error |-> <<"user_id is required">>]),
            sessions |-> sessions, log |-> <<>>]
    ELSE IF created
      THEN LET session == NewSession(sessions, uid) IN
           [resp |-> Json(200, [session_id |-> session.id, user_id |-> uid]),
            sessions |-> sessions \cup {session},
            log |-> << <<"New session created for user '">> \o uid
                         \o <<"' with session_id: ">> \o sanitize_for_log(session.id) >>]
    ELSE [resp |-> Json(500, [error |-> <<"Could not create session.">>]),
          sessions |-> sessions,
          log |-> << <<"Failed to create session for user '">> \o uid \o <<"'.">>,
                     <<"Session creation failed for user '">> \o uid
                       \o <<"':\nException: ">> \o StoreError >>]

Login(body, created) ==
  /\ pc = "idle"
  /\ Cardinality(sessions) < MaxSessions
  /\ LET out == login(body, created) IN
       /\ resp' = out.resp
       /\ sessions' = out.sessions
       /\ log' = out.log
  /\ req' = [route |-> "login", body |-> body]
  /\ NoChat
  /\ UNCHANGED <<appVars, cacheVars>>

----------------------------------------------------------------------------
(* /api/logout *)

\* logout(): the response and the store it leaves
logout(body) ==
  IF body.kind = "malformed"                                 \* get_json raises
    THEN [resp |-> BadRequest400, sessions |-> sessions, log |-> <<>>]
  ELSE IF body.kind = "null"                                 \* None.get, line 170
    THEN [resp |-> Unhandled500, sessions |-> sessions, log |-> <<>>]
  ELSE [resp |-> Json(200, [message |-> <<"Logout successful">>]),
        sessions |-> sessions,
        log |-> << <<"User '">> \o sanitize_for_log(body.user_id)
                     \o <<"' logged out of session '">>
                     \o sanitize_for_log(body.session_id) \o <<"'.">> >>]

Logout(body) ==
  /\ pc = "idle"
  /\ LET out == logout(body) IN
       /\ resp' = out.resp
       /\ sessions' = out.sessions
       /\ log' = out.log
  /\ req' = [route |-> "logout", body |-> body]
  /\ NoChat
  /\ UNCHANGED <<appVars, cacheVars>>

----------------------------------------------------------------------------
(* The agent runtime's events *)

\* one part of event.content.parts: its text and the 'sql_query' argument of
\* its function_call (None: no function_call, or no such argument)
Parts == [text : {None, <<"a">>}, sql_query : {None, <<>>, <<"S">>, NA}]

\* parts lists of up to two parts
PartLists == {<<>>} \cup {<<p>> : p \in Parts} \cup {<<p, q>> : p, q \in Parts}

NoContent == [role |-> "none", parts |-> <<>>]

ErrorCodes == {<<"E1">>}

\* events with a model content
ModelEvents ==
  {[error_code |-> None, content |-> [role |-> "model", parts |-> ps]] : ps \in PartLists}

\* error events
ErrorEvents == {[error_code |-> c, content |-> NoContent] : c \in ErrorCodes}

\* these, events with a content of another role, and events without content
Events ==
  ModelEvents
    \cup {[error_code |-> None, content |-> [role |-> "user", parts |-> <<p>>]] : p \in Parts}
    \cup {[error_code |-> None, content |-> NoContent]}
    \cup ErrorEvents

----------------------------------------------------------------------------
(* /api/chat *)

ChatNotInitialized ==
  Json(500, [error |-> <<"Chat components not initialized on the server.">>])

ChatFieldsRequired ==
  Json(400, [error |-> <<"user_id, session_id, and message are required">>])

\* the except branch answering with the exception's own text
ChatInternalError_leaks(sid, e) ==
  Json(500, [session_id |-> IF Truthy(sid) THEN sid ELSE <<>>,
             messages |-> <<>>,
             error |-> e])

\* line 244: the except branch's answer; sid is the local session_id, e is str(e)
ChatInternalError(sid, e) ==
  Json(500, [session_id |-> IF Truthy(sid) THEN sid ELSE <<>>,
             messages |-> <<>>,
             error |-> <<"Internal server error">>])

\* line 238
ChatOk(sid, parts) == Json(200, [session_id |-> sid, messages |-> parts])

\* the apology without the f-string's {event.error_code}
Apology_omitsCode(error_code) ==
  [role |-> "assistant",
   content |-> <<"I'm sorry, I encountered a technical issue...">>]

\* line 208
Apology(error_code) ==
  [role |-> "assistant",
   content |-> <<"I'm sorry, I encountered a technical issue...">> \o error_code]

\* line 231; the two symbols are the fence literals of the f-string, each
\* backquote written as '
FormattedSql(sql) == <<"'''sql\n">> \o sql \o <<"\n'''">>

\* lines 218-220: text_in_this_turn after the loop over the parts
RECURSIVE TextInTurn(_)
TextInTurn(parts) ==
  IF parts = <<>> THEN <<>>
  ELSE LET part == parts[Len(parts)]
           before == TextInTurn(SubSeq(parts, 1, Len(parts) - 1))
       IN IF Truthy(part.text) THEN before \o part.text ELSE before

\* lines 221-224: sql_in_this_turn after the loop over the parts
RECURSIVE SqlInTurn(_)
SqlInTurn(parts) ==
  IF parts = <<>> THEN None
  ELSE LET part == parts[Len(parts)] IN
       IF Truthy(part.sql_query) THEN part.sql_query
       ELSE SqlInTurn(SubSeq(parts, 1, Len(parts) - 1))

\* lines 212-213
IsModelEvent(event) == event.content # NoContent /\ event.content.role = "model"

\* 'if' in place of 'elif' on line 233: the text is appended after the SQL
AppendTurn_textToo(out, text, sql) ==
  LET withSql == IF Truthy(sql)
                   THEN Append(out, [role |-> "model", content |-> FormattedSql(sql)])
                   ELSE out
  IN IF Truthy(text) THEN Append(withSql, [role |-> "model", content |-> text])
     ELSE withSql

\* 'else' in place of 'elif text_in_this_turn' on line 233: a turn without SQL
\* is appended whether or not it has text
AppendTurn_emptyToo(out, text, sql) ==
  IF Truthy(sql) THEN Append(out, [role |-> "model", content |-> FormattedSql(sql)])
  ELSE Append(out, [role |-> "model", content |-> text])

\* list.insert(0, ...) in place of list.append: the newest message comes first
AppendTurn_prepends(out, text, sql) ==
  IF Truthy(sql) THEN <<[role |-> "model", content |-> FormattedSql(sql)]>> \o out
  ELSE IF Truthy(text) THEN <<[role |-> "model", content |-> text]>> \o out
  ELSE out

\* lines 230-234: final_response_parts after a model event
AppendTurn(out, text, sql) ==
  IF Truthy(sql) THEN Append(out, [role |-> "model", content |-> FormattedSql(sql)])
  ELSE IF Truthy(text) THEN Append(out, [role |-> "model", content |-> text])
  ELSE out

\* line 236, on the KPI record as it is when the loop is left
ClarificationAsked(kpi, text) == Get(kpi, "generated_sql") = NA /\ Truthy(text)

\* repr() of final_response_parts as the f-string of line 237 writes it
RECURSIVE repr(_)
repr(out) ==
  IF out = <<>> THEN <<>>
  ELSE repr(SubSeq(out, 1, Len(out) - 1))
         \o <<"{'role': '", out[Len(out)].role, "', 'content': '">>
         \o out[Len(out)].content \o <<"'}">>

\* lines 242-243: what the except branch writes to the two logs
ChatErrorLog(e) ==
  << <<"Error during chat processing: ">> \o e,
     <<"Chat handler error:\nException: ">> \o e >>

\* lines 236-238: leaving the loop
ChatReturn(kpi, out, text, sid) ==
  /\ log' = Append(log, <<"[CHAT_END] user '">> \o user_id \o <<"': [">>
                          \o repr(out) \o <<"]">>)
  /\ kpi_data' = Put(Put(kpi, "generated_sql", Get(kpi, "generated_sql")),
                     "clarification_asked", ClarificationAsked(kpi, text))
  /\ resp' = ChatOk(sid, out)
  /\ pc' = "idle"
  /\ final_response_parts' = <<>>
  /\ user_id' = None
  /\ session_id' = None

\* a return before the loop is entered: no agent run, the locals are gone
ChatAnswer(response, kpi) ==
  /\ resp' = response
  /\ kpi_data' = kpi
  /\ pc' = "idle"
  /\ user_id' = None
  /\ session_id' = None
  /\ final_response_parts' = <<>>
  /\ llm_response_text' = <<>>
  /\ streamLeft' = 0
  /\ consumed' = 0
  /\ sqlEvents' = 0
  /\ agentCalls' = 0

\* lines 177-206: chat_handler up to its first wait on the stream.  The agent
\* run it starts is going to yield some number of events, up to MaxEvents.
ChatStart(body) ==
  /\ pc = "idle"
  /\ req' = [route |-> "chat", body |-> body]
  /\ UNCHANGED <<appVars, sessions, cacheVars, test>>
  /\ IF session_service = "unset"
       THEN ChatAnswer(Unhandled500, <<>>) /\ log' = <<>>    \* AttributeError, line 179
     ELSE IF runner = "None" \/ genai_types = "unset"
       THEN ChatAnswer(ChatNotInitialized, <<>>) /\ log' = <<>>
     ELSE IF body.kind = "malformed"
       THEN /\ ChatAnswer(ChatInternalError(None, GetJsonError),
                          Put(<<>>, "server_error", GetJsonError))
            /\ log' = ChatErrorLog(GetJsonError)
     ELSE IF body.kind = "null"
       THEN /\ ChatAnswer(ChatInternalError(None, NoneGetError),
                          Put(<<>>, "server_error", NoneGetError))
            /\ log' = ChatErrorLog(NoneGetError)
     ELSE LET uid == sanitize_for_log(body.user_id)
              sid == sanitize_for_log(body.session_id)
          IN IF body.message.kind = "string"
               THEN /\ ChatAnswer(ChatInternalError(sid, StrGetError),
                                  Put(<<>>, "server_error", StrGetError))
                    /\ log' = ChatErrorLog(StrGetError)
             ELSE LET message_text ==
                        sanitize_for_log(IF body.message.kind = "absent" THEN None
                                         ELSE body.message.message)
                  IN IF ~AllTruthy(<<uid, sid, message_text>>)
                       THEN /\ ChatAnswer(ChatFieldsRequired, <<>>)
                            /\ log' = << <<"Chat request failed due to missing user_id, session_id, or message.">> >>
                     ELSE /\ resp' = NoResp
                          /\ log' = << <<"[CHAT_START] user '">> \o uid \o <<"', session '">>
                                        \o sid \o <<"': ">> \o message_text >>
                          /\ kpi_data' = Put(Put(Put(Put(<<>>, "user_id", uid),
                                                     "session_id", sid),
                                                 "question", message_text),
                                             "llm_round_trips", 0)
                          /\ pc' = "consuming"
                          /\ user_id' = uid
                          /\ session_id' = sid
                          /\ final_response_parts' = <<>>
                          /\ llm_response_text' = <<>>
                          /\ \E n \in 0..MaxEvents : streamLeft' = n
                          /\ consumed' = 0
                          /\ sqlEvents' = 0
                          /\ agentCalls' = 1

\* lines 207-234: one turn of the async for, and lines 236-238 when it breaks
ChatEvent(event) ==
  /\ pc = "consuming"
  /\ streamLeft > 0
  /\ streamLeft' = streamLeft - 1
  /\ consumed' = consumed + 1
  /\ IF Truthy(event.error_code)
       THEN /\ ChatReturn(Put(kpi_data, "agent_error", event.error_code),
                          Append(final_response_parts, Apology(event.error_code)),
                          llm_response_text, session_id)
            /\ UNCHANGED <<llm_response_text, sqlEvents>>
     ELSE IF IsModelEvent(event)
       THEN LET text_in_this_turn == TextInTurn(event.content.parts)
                sql_in_this_turn == SqlInTurn(event.content.parts)
                counted == Put(kpi_data, "llm_round_trips",
                               Get(kpi_data, "llm_round_trips") + 1)
            IN /\ final_response_parts' =
                    AppendTurn(final_response_parts, text_in_this_turn, sql_in_this_turn)
               /\ llm_response_text' = llm_response_text \o text_in_this_turn
               /\ sqlEvents' = IF Truthy(sql_in_this_turn) THEN sqlEvents + 1 ELSE sqlEvents
               /\ kpi_data' = IF Truthy(sql_in_this_turn)
                                THEN Put(counted, "generated_sql", sql_in_this_turn)
                                ELSE counted
               /\ UNCHANGED <<pc, user_id, session_id, resp, log>>
     ELSE UNCHANGED <<pc, user_id, session_id, resp, kpi_data, llm_response_text,
                      final_response_parts, sqlEvents, log>>
  /\ UNCHANGED <<appVars, sessions, cacheVars, req, agentCalls, test>>

\* the stream is exhausted: lines 236-238
ChatFinish ==
  /\ pc = "consuming"
  /\ streamLeft = 0
  /\ ChatReturn(kpi_data, final_response_parts, llm_response_text, session_id)
  /\ UNCHANGED <<appVars, sessions, cacheVars, req, agentCalls, llm_response_text,
                 streamLeft, consumed, sqlEvents, test>>

\* an except branch that submits the message to the agent a second time
ChatException_retries(text) ==
  /\ pc = "consuming"
  /\ agentCalls <= 1
  /\ agentCalls' = agentCalls + 1
  /\ kpi_data' = Put(kpi_data, "server_error", text)
  /\ \E n \in 0..MaxEvents : streamLeft' = n
  /\ consumed' = 0
  /\ log' = log \o ChatErrorLog(text)
  /\ UNCHANGED <<appVars, sessions, cacheVars, req, resp, pc, user_id, session_id,
                 final_response_parts, llm_response_text, sqlEvents, test>>

\* an except branch that answers with the messages gathered before the failure
ChatException_keepsMessages(text) ==
  /\ pc = "consuming"
  /\ kpi_data' = Put(kpi_data, "server_error", text)
  /\ resp' = Json(500, [session_id |-> IF Truthy(session_id) THEN session_id ELSE <<>>,
                        messages |-> final_response_parts,
                        error |-> <<"Internal server error">>])
  /\ log' = log \o ChatErrorLog(text)
  /\ pc' = "idle"
  /\ final_response_parts' = <<>>
  /\ user_id' = None
  /\ session_id' = None
  /\ UNCHANGED <<appVars, sessions, cacheVars, req, agentCalls, llm_response_text,
                 streamLeft, consumed, sqlEvents, test>>

\* the wait on the stream raises: lines 240-244
ChatException(text) ==
  /\ pc = "consuming"
  /\ kpi_data' = Put(kpi_data, "server_error", text)
  /\ resp' = ChatInternalError(session_id, text)
  /\ log' = log \o ChatErrorLog(text)
  /\ pc' = "idle"
  /\ final_response_parts' = <<>>
  /\ user_id' = None
  /\ session_id' = None
  /\ UNCHANGED <<appVars, sessions, cacheVars, req, agentCalls, llm_response_text,
                 streamLeft, consumed, sqlEvents, test>>

----------------------------------------------------------------------------

Next ==
  \/ \E body \in LoginBodies, created \in BOOLEAN : Login(body, created)
  \/ \E body \in LogoutBodies : Logout(body)
  \/ \E body \in ChatBodies : ChatStart(body)
  \/ \E event \in Events : ChatEvent(event)
  \/ ChatFinish
  \/ \E text \in ExceptionTexts : ChatException(text)

Spec == Init /\ [][Next]_vars

----------------------------------------------------------------------------
(* /api/test_query *)

\* request.args.get("user_id") and request.args.get("question")
TestArgs == {None, <<>>, <<"u">>}

\* the parts of the events test_query is given: a text may be blank
TestParts == [text : {None, <<"a">>, <<" ">>}, sql_query : {None, <<>>, <<"S">>}]

\* events of an agent run: with a content of either role (test_query reads no
\* role), without content, and error events
TestEvents ==
  {[error_code |-> None, error_message |-> None, content |-> [role |-> "model", parts |-> ps]] :
     ps \in {<<>>} \cup {<<p>> : p \in TestParts} \cup {<<p, q>> : p, q \in TestParts}}
    \cup {[error_code |-> None, error_message |-> None,
           content |-> [role |-> "user", parts |-> <<p>>]] : p \in TestParts}
    \cup {[error_code |-> None, error_message |-> None, content |-> NoContent]}
    \cup {[error_code |-> c, error_message |-> <<"failed">>, content |-> NoContent] :
            c \in ErrorCodes}

TestFieldsRequired == Json(400, [error |-> <<"Both 'user_id' and 'question' required">>])
TestNotInitialized == Json(500, [error |-> <<"Chat components not initialized">>])
TestInternalError  == Json(500, [error |-> <<"Internal server error">>])

\* str.strip(): the string without its leading and trailing whitespace
Whitespace == {" ", "\n", "\r", "\t"}
RECURSIVE strip(_)
strip(s) ==
  IF s = <<>> THEN s
  ELSE IF s[1] \in Whitespace THEN strip(Tail(s))
  ELSE IF s[Len(s)] \in Whitespace THEN strip(SubSeq(s, 1, Len(s) - 1))
  ELSE s

\* lines 325-329: generated_sql after the loop over the parts of one event
RECURSIVE TestSql(_, _)
TestSql(generated_sql, parts) ==
  IF parts = <<>> THEN generated_sql
  ELSE LET part == parts[Len(parts)]
           before == TestSql(generated_sql, SubSeq(parts, 1, Len(parts) - 1))
       IN IF Truthy(part.sql_query) THEN part.sql_query ELSE before

\* lines 333-336 with the clarification answered whenever no SQL was captured
test_answer_noFallback(t) ==
  IF t.agent_error # None
    THEN Json(400, [status |-> <<"AgentError">>, error |-> t.agent_error])
  ELSE IF ~Truthy(t.generated_sql)
    THEN Json(200, [status |-> <<"ClarificationNeeded">>,
                    clarification_question |-> strip(t.llm_response)])
  ELSE Json(200, [status |-> <<"Success">>, generated_sql |-> t.generated_sql])

\* lines 333-336: the answer after the loop
test_answer(t) ==
  IF t.agent_error # None
    THEN Json(400, [status |-> <<"AgentError">>, error |-> t.agent_error])
  ELSE IF ~Truthy(t.generated_sql) /\ Truthy(t.llm_response)
    THEN Json(200, [status |-> <<"ClarificationNeeded">>,
                    clarification_question |-> strip(t.llm_response)])
  ELSE Json(200, [status |-> <<"Success">>,
                  generated_sql |-> IF Truthy(t.generated_sql) THEN t.generated_sql
                                    ELSE <<"No SQL generated.">>])

\* lines 339-340: what the except branch writes to the two logs
TestErrorLog(e) ==
  << <<"Error in test_query endpoint: ">> \o e,
     <<"Test query failed:\nException: ">> \o e >>

\* test_query returns: its locals and the agent run are gone
TestReturn(response) ==
  /\ resp' = response
  /\ pc' = "idle"
  /\ test' = NoTest
  /\ streamLeft' = 0

\* chat_handler's own locals, which test_query does not have
NoChatLocals ==
  /\ user_id' = None
  /\ session_id' = None
  /\ final_response_parts' = <<>>
  /\ llm_response_text' = <<>>
  /\ kpi_data' = <<>>
  /\ sqlEvents' = 0

\* lines 306-320: test_query up to its first wait on the stream.  created:
\* create_session returns (TRUE) or raises (FALSE).
TestStart(user, question, created) ==
  /\ pc = "idle"
  /\ Cardinality(sessions) < MaxSessions
  /\ req' = [route |-> "test_query", user_id |-> user, question |-> question]
  /\ consumed' = 0
  /\ NoChatLocals
  /\ UNCHANGED <<appVars, cacheVars>>
  /\ LET uid == sanitize_for_log(user)
         q == sanitize_for_log(question)
     IN IF ~AllTruthy(<<uid, q>>)
          THEN /\ TestReturn(TestFieldsRequired)
               /\ agentCalls' = 0 /\ log' = <<>> /\ UNCHANGED sessions
        ELSE IF session_service = "unset"                    \* AttributeError, line 311
          THEN /\ TestReturn(Unhandled500)
               /\ agentCalls' = 0 /\ log' = <<>> /\ UNCHANGED sessions
        ELSE IF runner = "None" \/ genai_types = "unset"
          THEN /\ TestReturn(TestNotInitialized)
               /\ agentCalls' = 0 /\ log' = <<>> /\ UNCHANGED sessions
        ELSE IF ~created
          THEN /\ TestReturn(TestInternalError)
               /\ agentCalls' = 0 /\ log' = TestErrorLog(StoreError) /\ UNCHANGED sessions
        ELSE /\ sessions' = sessions \cup {NewSession(sessions, uid)}
             /\ resp' = NoResp
             /\ pc' = "testing"
             /\ test' = [generated_sql |-> None, agent_error |-> None, llm_response |-> <<>>]
             /\ \E n \in 0..MaxEvents : streamLeft' = n
             /\ agentCalls' = 1
             /\ log' = <<>>

\* lines 321-331: one turn of the async for, and lines 333-336 when it breaks
TestEvent(event) ==
  /\ pc = "testing"
  /\ streamLeft > 0
  /\ consumed' = consumed + 1
  /\ IF Truthy(event.error_code)
       THEN TestReturn(test_answer([test EXCEPT
                         !.agent_error = <<event.error_code, event.error_message>>]))
     ELSE LET generated_sql == IF event.content # NoContent
                                 THEN TestSql(test.generated_sql, event.content.parts)
                                 ELSE test.generated_sql
              llm_response == IF event.content # NoContent
                                THEN test.llm_response \o TextInTurn(event.content.parts)
                                ELSE test.llm_response
              t == [test EXCEPT !.generated_sql = generated_sql,
                                !.llm_response = llm_response]
          IN IF Truthy(generated_sql)
               THEN TestReturn(test_answer(t))
               ELSE /\ test' = t
                    /\ streamLeft' = streamLeft - 1
                    /\ UNCHANGED <<pc, resp>>
  /\ NoChatLocals
  /\ UNCHANGED <<appVars, sessions, cacheVars, req, agentCalls, log>>

\* the stream is exhausted: lines 333-336
TestFinish ==
  /\ pc = "testing"
  /\ streamLeft = 0
  /\ TestReturn(test_answer(test))
  /\ NoChatLocals
  /\ UNCHANGED <<appVars, sessions, cacheVars, req, agentCalls, consumed, log>>

\* the wait on the stream raises: lines 338-341
TestException(text) ==
  /\ pc = "testing"
  /\ TestReturn(TestInternalError)
  /\ log' = log \o TestErrorLog(text)
  /\ NoChatLocals
  /\ UNCHANGED <<appVars, sessions, cacheVars, req, agentCalls, consumed>>

NextTest ==
  \/ \E user, question \in TestArgs, created \in BOOLEAN : TestStart(user, question, created)
  \/ \E event \in TestEvents : TestEvent(event)
  \/ TestFinish
  \/ \E text \in ExceptionTexts : TestException(text)

SpecTest == Init /\ [][NextTest]_vars

----------------------------------------------------------------------------
(* The metadata gateway (src/backend/utils.py) as the cached routes see it *)

\* what the warehouse holds when it is asked: its base tables, and the counts
\* get_total_rows and get_total_column_count sum up.  A query that fails
\* inside the gateway is answered like an empty warehouse ([] and 0).
Warehouses ==
  {[tables |-> <<>>, total_columns |-> 0, total_rows |-> 0],
   [tables |-> << <<"t">> >>, total_columns |-> 2, total_rows |-> 5]}

\* one gateway call: it answers from a warehouse, or bigquery.Client() raises
\* (get_table_ddl_strings, line 63) or jsonify cannot serialise a row
\* failed: the queries raised inside the gateway, which logs that and answers
\* like an empty warehouse
GatewayOutcomes ==
  {[raises |-> TRUE, failed |-> FALSE]}
    \cup {[raises |-> FALSE, failed |-> FALSE, warehouse |-> w] : w \in Warehouses}
    \cup {[raises |-> FALSE, failed |-> TRUE,
           warehouse |-> [tables |-> <<>>, total_columns |-> 0, total_rows |-> 0]]}

\* str(e) of the exceptions the warehouse client and jsonify raise
GatewayError == <<"403 Access Denied">>
JsonifyError == <<"Object of type bytes is not JSON serializable">>

\* str.replace of one character by a string
Replace(s, c, by) == [i \in 1..Len(s) |-> IF s[i] = c THEN by ELSE s[i]]

\* sanitize_for_log of src/backend/utils.py, lines 12-17: only the newline and
\* the carriage return are replaced, each by its two-character escape
gateway_sanitize_for_log(value) == Replace(Replace(Str(value), "\n", "\\n"), "\r", "\\r")

\* f"{PROJECT_ID}.{DATASET_NAME}.{table_name}"
FullTableName(table_name) == <<"agentic-data.mdp_ad_td_bqd_common_prod.">> \o table_name

\* ','.join(table_names)
RECURSIVE JoinNames(_)
JoinNames(names) ==
  IF names = <<>> THEN <<>>
  ELSE IF Len(names) = 1 THEN names[1]
  ELSE names[1] \o <<",">> \o JoinNames(Tail(names))

\* fetch_sample_data_for_single_table: the rows of a table the warehouse has,
\* [] for any other name
SampleRows(w, table_name) ==
  IF \E i \in 1..Len(w.tables) : w.tables[i] = table_name
    THEN << [id |-> w.total_rows] >>
    ELSE <<>>

\* get_table_description: "" for a table without one and for any failure
TableDescription(w, table_name) ==
  IF \E i \in 1..Len(w.tables) : w.tables[i] = table_name THEN <<"about ">> \o table_name
  ELSE <<>>

----------------------------------------------------------------------------
(* The response cache: cache(timeout=3600) *)

Timeout == 3600

\* seconds the decorated handler takes, between the two time.time() calls
HandlerDurations == {0, TickStep}

\* line 92 with the comparison turned around
IsFresh_inclusive(entry, t) == (t - entry.timestamp) <= Timeout

\* line 92: the entry is young enough to be served
IsFresh(entry, t) == (t - entry.timestamp) < Timeout

\* wrapper() keeping only the results whose status is 200
wrapper_onlyOk(store, url, fresh, d) ==
  IF url \in DOMAIN store /\ IsFresh(store[url], now)
    THEN [result |-> store[url].result, store |-> store, ran |-> 0, time |-> now]
    ELSE [result |-> fresh,
          store |-> IF fresh.status = 200
                      THEN Put(store, url, [result |-> fresh, timestamp |-> now + d])
                      ELSE store,
          ran |-> 1,
          time |-> now + d]

\* wrapper(), lines 88-97.  store: wrapper.cache; url: request.url; fresh: what
\* f(*args, **kwargs) returns if it is called; d: how long that call takes.
\* Gives the result, the store and the clock afterwards, and whether f ran.
wrapper(store, url, fresh, d) ==
  IF url \in DOMAIN store /\ IsFresh(store[url], now)
    THEN [result |-> store[url].result, store |-> store, ran |-> 0, time |-> now]
    ELSE [result |-> fresh,
          store |-> Put(store, url, [result |-> fresh, timestamp |-> now + d]),
          ran |-> 1,
          time |-> now + d]

\* the server as it starts when every component loads; the routes below read
\* none of app's attributes
InitStarted == Init /\ runner = "Runner" /\ session_service = "db"

----------------------------------------------------------------------------
(* /api/tables *)

\* request.url of the requests to /api/tables
TablesUrls == { <<"/api/tables">> }

\* list_tables(), lines 249-262
list_tables(outcome) ==
  IF outcome.raises
    THEN Json(500, [error |-> <<"Internal server error">>])
    ELSE Json(200, [tables |-> outcome.warehouse.tables,
                    num_tables |-> Len(outcome.warehouse.tables),
                    total_columns |-> outcome.warehouse.total_columns,
                    total_rows |-> outcome.warehouse.total_rows])

\* the lines list_tables and the gateway calls it makes write
list_tables_log(outcome) ==
  IF outcome.raises
    THEN << <<"Error listing tables: ">> \o GatewayError,
            <<"List tables failed:\nException: ">> \o GatewayError >>
  ELSE (IF outcome.failed
          THEN << <<"Failed to fetch DDL strings. Please contact support.">>,
                  <<"Failed to fetch DDL strings.\nException: ">>
                    \o gateway_sanitize_for_log(GatewayError),
                  <<"Failed to fetch total column count.">>,
                  <<"Error fetching total column count.\nException: ">>
                    \o gateway_sanitize_for_log(GatewayError) >>
          ELSE <<>>)
       \o << <<"Listed tables: ">> \o sanitize_for_log(JoinNames(outcome.warehouse.tables)) >>

ListTables(url, outcome, d) ==
  /\ pc = "idle"
  /\ now + d <= MaxClock
  /\ LET out == wrapper(tablesCache, url, list_tables(outcome), d) IN
       /\ resp' = out.result
       /\ log' = IF out.ran = 1 THEN list_tables_log(outcome) ELSE <<>>
       /\ tablesCache' = out.store
       /\ handlerRuns' = out.ran
       /\ now' = out.time
  /\ req' = [route |-> "tables", url |-> url]
  /\ NoChat
  /\ UNCHANGED <<appVars, sessions, tableDataCache, threads>>

----------------------------------------------------------------------------
(* /api/table_data *)

\* request.args.get("table_name"): None when the parameter is not given
TableNameInputs == {None, <<>>, <<"t">>}

\* request.url of a request with that parameter
TableDataUrl(arg) ==
  IF arg = None THEN <<"/api/table_data">>
  ELSE <<"/api/table_data", "?table_name=">> \o arg

\* get_table_data(), lines 267-278
get_table_data(arg, outcome) ==
  LET table_name == sanitize_for_log(arg) IN
    IF ~Truthy(table_name)
      THEN Json(400, [error |-> <<"Table name is required">>])
    ELSE IF outcome.raises
      THEN Json(500, [error |-> <<"Internal server error">>])
    ELSE Json(200, [data |-> SampleRows(outcome.warehouse, table_name),
                    description |-> TableDescription(outcome.warehouse, table_name)])

\* the lines fetch_sample_data_for_single_table writes (utils.py, 145-157)
fetch_sample_data_log(table_name, outcome) ==
  LET full_table_name == FullTableName(table_name) IN
    << <<"Fetching sample data for table: ">> \o full_table_name >>
    \o (IF outcome.raises THEN <<>>
        ELSE IF outcome.failed
          THEN << <<"Error fetching sample data for ">>
                    \o gateway_sanitize_for_log(full_table_name) \o <<".">>,
                  <<"Error fetching sample data for ">>
                    \o gateway_sanitize_for_log(full_table_name) \o <<".\nException: ">>
                    \o gateway_sanitize_for_log(GatewayError) >>
        ELSE IF SampleRows(outcome.warehouse, table_name) = <<>>
          THEN << <<"No sample data found for table '">> \o full_table_name \o <<"'.">> >>
        ELSE <<>>)

\* the lines get_table_description writes (utils.py, 55-57)
get_table_description_log(table_name, outcome) ==
  IF outcome.failed
    THEN << <<"Error fetching table description for ">>
              \o gateway_sanitize_for_log(table_name) \o <<". Please contact support.">>,
            <<"Failed to fetch table description for ">>
              \o gateway_sanitize_for_log(table_name) \o <<".\nException: ">>
              \o gateway_sanitize_for_log(GatewayError) >>
    ELSE <<>>

\* the lines get_table_data and the gateway calls it makes write; what raises
\* in it is jsonify, after line 273
get_table_data_log(arg, outcome) ==
  LET table_name == sanitize_for_log(arg) IN
    IF ~Truthy(table_name) THEN <<>>
    ELSE fetch_sample_data_log(table_name, outcome)
           \o get_table_description_log(table_name, outcome)
           \o << <<"Fetched data for table: ">> \o table_name >>
           \o (IF outcome.raises
                 THEN << <<"Error getting table data for ">> \o table_name \o <<": ">>
                           \o JsonifyError,
                         <<"Get table data failed for ">> \o table_name
                           \o <<":\nException: ">> \o JsonifyError >>
                 ELSE <<>>)

GetTableData(arg, outcome, d) ==
  /\ pc = "idle"
  /\ now + d <= MaxClock
  /\ LET out == wrapper(tableDataCache, TableDataUrl(arg), get_table_data(arg, outcome), d) IN
       /\ resp' = out.result
       /\ log' = IF out.ran = 1 THEN get_table_data_log(arg, outcome) ELSE <<>>
       /\ tableDataCache' = out.store
       /\ handlerRuns' = out.ran
       /\ now' = out.time
  /\ req' = [route |-> "table_data", url |-> TableDataUrl(arg), arg |-> arg]
  /\ NoChat
  /\ UNCHANGED <<appVars, sessions, tablesCache, threads>>

\* time passes between requests
Tick ==
  /\ pc = "idle"
  /\ now + TickStep <= MaxClock
  /\ now' = now + TickStep
  /\ UNCHANGED <<appVars, sessions, chatVars, tablesCache, tableDataCache, handlerRuns,
                 threads, log, req, resp>>

NextCache ==
  \/ \E url \in TablesUrls, outcome \in GatewayOutcomes, d \in HandlerDurations :
       ListTables(url, outcome, d)
  \/ \E arg \in TableNameInputs, outcome \in GatewayOutcomes, d \in HandlerDurations :
       GetTableData(arg, outcome, d)
  \/ Tick

SpecCache == InitStarted /\ [][NextCache]_vars

----------------------------------------------------------------------------
(* /api/table_data under the threaded server: requests inside wrapper() at
   the same time, each at its own line of it *)

ThreadIds == 1..MaxThreads

\* request.args.get("table_name") of the concurrent requests
RaceArgs == {None, <<"t">>}

\* the thread handles no request
Idle(t) == t \notin DOMAIN threads

\* threads without the request of thread t, which has been answered
Answered(t) == [u \in DOMAIN threads \ {t} |-> threads[u]]

\* line 97 as dict.setdefault: an entry that is there is kept
Store_keepsFirst(t) ==
  /\ ~Idle(t)
  /\ threads[t].pc = "store"
  /\ tableDataCache' =
       IF threads[t].url \in DOMAIN tableDataCache THEN tableDataCache
       ELSE Put(tableDataCache, threads[t].url,
                [result |-> threads[t].result, timestamp |-> now])
  /\ resp' = threads[t].result
  /\ threads' = Answered(t)
  /\ UNCHANGED <<appVars, sessions, chatVars, now, tablesCache, handlerRuns, log, req>>

\* lines 90-94: the look-up.  A fresh entry is returned; otherwise the thread
\* goes on to call the handler.
Lookup(t, arg) ==
  /\ pc = "idle"
  /\ Idle(t)
  /\ LET url == TableDataUrl(arg) IN
       IF url \in DOMAIN tableDataCache /\ IsFresh(tableDataCache[url], now)
         THEN /\ resp' = tableDataCache[url].result
              /\ UNCHANGED threads
         ELSE /\ threads' = Put(threads, t, [pc |-> "call", url |-> url, arg |-> arg,
                                             result |-> NoResp])
              /\ UNCHANGED resp
  /\ req' = [route |-> "table_data", url |-> TableDataUrl(arg), arg |-> arg]
  /\ UNCHANGED <<appVars, sessions, chatVars, now, tablesCache, tableDataCache,
                 handlerRuns, log>>

\* line 95: result = f(*args, **kwargs)
Call(t, outcome) ==
  /\ ~Idle(t)
  /\ threads[t].pc = "call"
  /\ threads' = [threads EXCEPT ![t].pc = "store",
                                ![t].result = get_table_data(threads[t].arg, outcome)]
  /\ log' = get_table_data_log(threads[t].arg, outcome)
  /\ UNCHANGED <<appVars, sessions, chatVars, now, tablesCache, tableDataCache,
                 handlerRuns, req, resp>>

\* lines 96-97: wrapper.cache[cache_key] = (result, time.time()); return result
Store(t) ==
  /\ ~Idle(t)
  /\ threads[t].pc = "store"
  /\ tableDataCache' = Put(tableDataCache, threads[t].url,
                           [result |-> threads[t].result, timestamp |-> now])
  /\ resp' = threads[t].result
  /\ threads' = Answered(t)
  /\ UNCHANGED <<appVars, sessions, chatVars, now, tablesCache, handlerRuns, log, req>>

NextRace ==
  \/ \E t \in ThreadIds, arg \in RaceArgs : Lookup(t, arg)
  \/ \E t \in ThreadIds, outcome \in GatewayOutcomes : Call(t, outcome)
  \/ \E t \in ThreadIds : Store(t)
  \/ Tick

SpecRace == InitStarted /\ [][NextRace]_vars

----------------------------------------------------------------------------
(* /api/code *)

\* request.args.get("filepath"): None when the parameter is not given, else a
\* string over these characters, "a" standing for any character of a name
PathChars == {"/", ".", "a"}

RECURSIVE PathsOfLen(_)
PathsOfLen(n) ==
  IF n = 0 THEN { <<>> }
  ELSE {Append(p, c) : p \in PathsOfLen(n - 1), c \in PathChars}

FilepathInputs == {None} \cup UNION {PathsOfLen(n) : n \in 0..MaxPathLen}

\* line 286: the data_agent directory next to backend/
allowed_dir == <<"/", "srv", "/", "data_agent">>

\* the files there are to open: one in data_agent, one above it
Files == {allowed_dir \o <<"/", "a">>, <<"/", "srv", "/", "a">>}

\* os.path.basename (posixpath): what follows the last "/"
basename(p) ==
  LET seps == {i \in 1..Len(p) : p[i] = "/"} IN
    IF seps = {} THEN p
    ELSE SubSeq(p, (CHOOSE i \in seps : \A j \in seps : j <= i) + 1, Len(p))

\* os.path.join of two components (posixpath)
join(a, b) ==
  IF b # <<>> /\ b[1] = "/" THEN b
  ELSE IF a = <<>> \/ a[Len(a)] = "/" THEN a \o b
  ELSE a \o <<"/">> \o b

\* str(e) of the exception open() raises for a directory
IsADirectoryError == <<"[Errno 21] Is a directory">>

\* str.startswith
startswith(s, prefix) == Len(s) >= Len(prefix) /\ SubSeq(s, 1, Len(prefix)) = prefix

\* open(path, 'r') names a directory: path ends in "/", "/." or "/.."
IsDirectory(path) == basename(path) \in { <<>>, <<".">>, <<".", ".">> }

\* get_code_file(), lines 282-302
get_code_file(arg) ==
  LET filepath == sanitize_for_log(arg) IN
    IF ~Truthy(filepath)
      THEN Json(400, [error |-> <<"Filepath is required">>])
    ELSE LET safe_filename == basename(filepath)
             abs_filepath == join(allowed_dir, safe_filename)
         IN IF ~startswith(abs_filepath, allowed_dir)
              THEN Json(400, [error |-> <<"Invalid filepath">>])
            ELSE IF abs_filepath \in Files
              THEN Json(200, [content |-> <<"content of ">> \o abs_filepath])
            ELSE IF IsDirectory(abs_filepath)          \* IsADirectoryError
              THEN Json(500, [error |-> <<"Internal server error">>])
            ELSE Json(404, [error |-> <<"File not found">>])

\* the lines get_code_file writes: 295, or 300-301 for an IsADirectoryError
get_code_file_log(arg) ==
  LET filepath == sanitize_for_log(arg) IN
    IF ~Truthy(filepath) THEN <<>>
    ELSE LET safe_filename == basename(filepath)
             abs_filepath == join(allowed_dir, safe_filename)
         IN IF ~startswith(abs_filepath, allowed_dir) THEN <<>>
            ELSE IF abs_filepath \in Files
              THEN << <<"Read code file: ">> \o safe_filename >>
            ELSE IF IsDirectory(abs_filepath)
              THEN << <<"Error reading code file ">> \o safe_filename \o <<": ">>
                        \o IsADirectoryError,
                      <<"Read code file failed for ">> \o safe_filename
                        \o <<":\nException: ">> \o IsADirectoryError >>
            ELSE <<>>

GetCodeFile(arg) ==
  /\ pc = "idle"
  /\ resp' = get_code_file(arg)
  /\ log' = get_code_file_log(arg)
  /\ req' = [route |-> "code", arg |-> arg]
  /\ NoChat
  /\ UNCHANGED <<appVars, sessions, cacheVars>>

NextCode == \E arg \in FilepathInputs : GetCodeFile(arg)

SpecCode == InitStarted /\ [][NextCode]_vars

----------------------------------------------------------------------------
(* The handlers under request fields that hold control characters *)

\* a string field of a request: absent, or with a tab, or a newline and a
\* carriage return in it
RawInputs == {None, <<"u", "\t">>, <<"\n", "\r">>}

RawChatBodies ==
  {[GoodChatBody EXCEPT !.user_id = u] : u \in RawInputs}
    \cup {[GoodChatBody EXCEPT !.session_id = x] : x \in RawInputs}
    \cup {[GoodChatBody EXCEPT !.message = [kind |-> "object", message |-> m]] :
            m \in RawInputs \cup {<<>>}}
    \cup {NullBody, MalformedBody, [GoodChatBody EXCEPT !.message = [kind |-> "string"]]}

\* events that end a turn, add a message to it, or add nothing
FewEvents ==
  ErrorEvents \cup
  {[error_code |-> None, content |-> [role |-> "model", parts |-> <<p>>]] :
     p \in {[text |-> <<"a">>, sql_query |-> None], [text |-> None, sql_query |-> <<"S">>]}}

FewTestEvents ==
  {e \in TestEvents : e.content = NoContent \/ Len(e.content.parts) = 0}

\* list_tables reads no field of the request and is left out
NextLog ==
  \/ \E u \in RawInputs, created \in BOOLEAN :
       Login([kind |-> "object", user_id |-> u], created)
  \/ \E u, x \in RawInputs : Logout([kind |-> "object", user_id |-> u, session_id |-> x])
  \/ \E body \in RawChatBodies : ChatStart(body)
  \/ \E event \in FewEvents : ChatEvent(event)
  \/ ChatFinish
  \/ \E text \in ExceptionTexts : ChatException(text)
  \/ \E arg \in RawInputs \ {None}, outcome \in GatewayOutcomes : GetTableData(arg, outcome, 0)
  \/ \E arg \in RawInputs \cup {<<"a", "/", ".", "\n">>} : GetCodeFile(arg)
  \/ \E user, question \in RawInputs \ {None}, created \in BOOLEAN :
       TestStart(user, question, created)
  \/ \E event \in FewTestEvents : TestEvent(event)
  \/ TestFinish
  \/ \E text \in ExceptionTexts : TestException(text)

SpecLog == InitStarted /\ [][NextLog]_vars

----------------------------------------------------------------------------
(* Process start-up: import of data_agent.instructions, then create_app *)

\* line 355 of app.py: create_app() runs when the imports are through
CreateApp(importsOk, dbOk, runnerOk) ==
  /\ build.pc = "done"
  /\ runner = "unbound"
  /\ LET app == create_app(importsOk, dbOk, runnerOk) IN
       /\ runner' = app.runner
       /\ session_service' = app.session_service
       /\ genai_types' = app.genai_types
  /\ UNCHANGED <<debug, build, CACHED_INSTRUCTIONS, instructions, sessions, chatVars,
                 cacheVars, log, req, resp>>

\* the process before anything of it ran
InitProcess ==
  /\ runner = "unbound"
  /\ session_service = "unset"
  /\ genai_types = "unset"
  /\ debug \in BOOLEAN
  /\ build = BuildStart
  /\ CACHED_INSTRUCTIONS = None
  /\ instructions = None
  /\ sessions = {}
  /\ pc = "idle"
  /\ user_id = None
  /\ session_id = None
  /\ final_response_parts = <<>>
  /\ llm_response_text = <<>>
  /\ kpi_data = <<>>
  /\ streamLeft = 0
  /\ consumed = 0
  /\ sqlEvents = 0
  /\ agentCalls = 0
  /\ test = NoTest
  /\ now = 0
  /\ tablesCache = <<>>
  /\ tableDataCache = <<>>
  /\ handlerRuns = 0
  /\ threads = NoThreads
  /\ log = <<>>
  /\ req = [route |-> "none"]
  /\ resp = NoResp

\* the app serves requests
Serving == build.pc = "done" /\ runner # "unbound"

NextProcess ==
  \/ \E outcome \in MetadataOutcomes : FetchMetadata(outcome)
  \/ \E env \in ProfileEnvs : FetchProfiles(env)
  \/ \E outcome \in SampleOutcomes : FetchSamples(outcome)
  \/ \E serializable \in BOOLEAN : Dumps(serializable)
  \/ \E outcome \in TemplateOutcomes : LoadTemplate(outcome)
  \/ Interpolate
  \/ \E target \in SaveTargets, written \in BOOLEAN : SaveForDebugging(target, written)
  \/ \E counted \in BOOLEAN : CountTokens(counted)
  \/ \E logged \in BOOLEAN : LogKpis(logged)
  \/ \E importsOk, dbOk, runnerOk \in BOOLEAN : CreateApp(importsOk, dbOk, runnerOk)
  \/ ReturnInstructions
  \/ Serving /\ \E body \in LogoutBodies : Logout(body)
  \/ Serving /\ \E arg \in {None, <<>>, <<"a">>, <<"/">>} : GetCodeFile(arg)

SpecProcess == InitProcess /\ [][NextProcess]_vars

----------------------------------------------------------------------------
(* Vocabulary of the properties *)

\* the server came up with its runner, session store and genai types
Initialized == runner # "None" /\ session_service # "unset" /\ genai_types # "unset"

Is4xx(status) == status \in 400..499
Is5xx(status) == status \in 500..599

\* t occurs in s
Contains(s, t) == \E i \in 1..(Len(s) - Len(t) + 1) : SubSeq(s, i, i + Len(t) - 1) = t

\* s ends with t, and is longer
EndsWith(s, t) == Len(s) > Len(t) /\ SubSeq(s, Len(s) - Len(t) + 1, Len(s)) = t

\* the output sequence of the chat request: the list under construction while
\* the handler runs, the messages of its response afterwards
Output ==
  IF pc = "consuming" THEN final_response_parts
  ELSE IF req.route = "chat" /\ "messages" \in DOMAIN resp.body THEN resp.body.messages
  ELSE <<>>

Apologies(out) == {i \in 1..Len(out) : out[i].role = "assistant"}

\* a chat body, readable as far as it goes, from which one of the three
\* mandatory fields is missing
ChatFieldMissing(body) ==
  /\ body.kind = "object"
  /\ body.message.kind # "string"
  /\ \/ body.user_id = None
     \/ body.session_id = None
     \/ body.message.kind = "absent"

\* reading this chat body raises
ChatBodyRaises(body) ==
  \/ body.kind \in {"malformed", "null"}
  \/ body.kind = "object" /\ body.message.kind = "string"

ChatBodyError(body) ==
  IF body.kind = "malformed" THEN GetJsonError
  ELSE IF body.kind = "null" THEN NoneGetError
  ELSE StrGetError

\* the SQL query argument an event carries: that of its last part that has one
CapturedSql(parts) ==
  LET having == {i \in 1..Len(parts) : parts[i].sql_query \notin {None, <<>>}}
  IN IF having = {} THEN None
     ELSE parts[CHOOSE i \in having : \A j \in having : j <= i].sql_query

\* the texts of an event's parts, in order, as one string
RECURSIVE ConcatText(_)
ConcatText(parts) ==
  IF parts = <<>> THEN <<>>
  ELSE (IF Head(parts).text = None THEN <<>> ELSE Head(parts).text)
         \o ConcatText(Tail(parts))

\* sql in a fenced code block labelled sql
Fenced(sql) == <<"'''sql\n">> \o sql \o <<"\n'''">>

----------------------------------------------------------------------------
(* C1: a chat request from which user_id, session_id or message.message is
   missing is answered with a 400-class error and runner.run_async is never
   invoked for it. *)
C1_MissingFieldRejected ==
  (req.route = "chat" /\ Initialized /\ ChatFieldMissing(req.body))
    => (Is4xx(resp.status) /\ agentCalls = 0)

(* C2: when a consumed event carries an error code, exactly one apology
   embedding that code is appended to the output, the handler answers, and no
   event is consumed after it; the output never holds two apologies. *)
C2_ErrorEventStopsWithOneApology ==
  [][/\ consumed' # consumed => \A e \in ErrorEvents :
          ChatEvent(e) =>
            LET out == resp'.body.messages IN
              /\ resp'.status = 200
              /\ Len(out) = Len(final_response_parts) + 1
              /\ SubSeq(out, 1, Len(final_response_parts)) = final_response_parts
              /\ out[Len(out)].role = "assistant"
              /\ EndsWith(out[Len(out)].content, e.error_code)
              /\ pc' = "idle"
     /\ consumed' > consumed => (pc = "consuming" /\ Apologies(Output) = {})
     /\ Cardinality(Apologies(Output')) <= 1
    ]_vars

\* the handler answered with an apology while the stream had events left
C2_Witness ==
  /\ req.route = "chat"
  /\ resp.status = 200
  /\ Apologies(Output) # {}
  /\ streamLeft > 0

(* C3: a consumed non-error model event adds exactly one "model" message
   holding the fenced SQL if the event carried a SQL query argument, else
   exactly one "model" message holding its concatenated text if that is not
   empty, else nothing; SQL and text together give the SQL message only. *)
C3_OneMessagePerModelEvent ==
  [][consumed' # consumed => \A e \in ModelEvents :
       ChatEvent(e) =>
         LET sql  == CapturedSql(e.content.parts)
             text == ConcatText(e.content.parts)
         IN IF sql # None
              THEN final_response_parts' =
                     Append(final_response_parts,
                            [role |-> "model", content |-> Fenced(sql)])
            ELSE IF text # <<>>
              THEN final_response_parts' =
                     Append(final_response_parts, [role |-> "model", content |-> text])
            ELSE final_response_parts' = final_response_parts
    ]_vars

\* one event was consumed, it carried SQL and text, and the output is the SQL alone
C3_Witness ==
  /\ pc = "consuming"
  /\ consumed = 1
  /\ sqlEvents = 1
  /\ llm_response_text # <<>>
  /\ Len(final_response_parts) = 1
  /\ Contains(final_response_parts[1].content, <<"S">>)

(* C4: an exception raised while the chat request's body is read, the agent
   is invoked or its stream is consumed is answered with status 500 and the
   error "Internal server error"; the exception's text is nowhere in the
   response body. *)
GenericFailure(r, e) ==
  /\ r.status = 500
  /\ r.body.error = <<"Internal server error">>
  /\ ~Contains(r.body.error, e)
  /\ ~Contains(r.body.session_id, e)
  /\ r.body.messages = <<>>

C4_ExceptionsAnsweredGenerically ==
  [][/\ \A text \in ExceptionTexts : ChatException(text) => GenericFailure(resp', text)
     /\ \A body \in ChatBodies :
          (ChatStart(body) /\ Initialized /\ ChatBodyRaises(body))
            => GenericFailure(resp', ChatBodyError(body))
    ]_vars

\* an exception in the middle of the stream, after an event was consumed
C4_Witness ==
  /\ req.route = "chat"
  /\ resp.status = 500
  /\ consumed >= 1
  /\ "server_error" \in DOMAIN kpi_data

(* C5: when a chat request ends without exception, clarification_asked is
   true exactly when no event of the exchange generated SQL and some
   assistant text was produced. *)
C5_ClarificationFlag ==
  (req.route = "chat" /\ resp.status = 200)
    => (kpi_data["clarification_asked"] = (sqlEvents = 0 /\ llm_response_text # <<>>))

(* C6: on a cached route, a request to a URL whose entry was stored less than
   3600 s ago is answered with the stored result and runs neither the handler
   nor the gateway; a request to a URL whose entry is 3600 s old or older runs
   the handler again and replaces the entry with the new result and its
   timestamp. *)
C6_Request(store, store2, url, fresh) ==
  /\ handlerRuns' = 1 => resp' = fresh
  /\ url \in DOMAIN store =>
       IF now - store[url].timestamp < 3600
         THEN /\ resp' = store[url].result
              /\ handlerRuns' = 0
              /\ store2 = store
              /\ now' = now
         ELSE /\ handlerRuns' = 1
              /\ store2 = [store EXCEPT ![url] = [result |-> resp', timestamp |-> now']]

C6_CacheServesUntilTimeout ==
  [][/\ \A url \in TablesUrls, outcome \in GatewayOutcomes, d \in HandlerDurations :
          ListTables(url, outcome, d)
            => C6_Request(tablesCache, tablesCache', url, list_tables(outcome))
     /\ \A arg \in TableNameInputs, outcome \in GatewayOutcomes, d \in HandlerDurations :
          GetTableData(arg, outcome, d)
            => C6_Request(tableDataCache, tableDataCache', TableDataUrl(arg),
                          get_table_data(arg, outcome))
    ]_vars

\* a request answered from an entry stored earlier, without running the handler
C6_Witness ==
  /\ req.route = "table_data"
  /\ handlerRuns = 0
  /\ req.url \in DOMAIN tableDataCache
  /\ now > tableDataCache[req.url].timestamp
  /\ resp = tableDataCache[req.url].result

(* C7: a filepath given to /api/code that steps to a parent directory, is
   absolute or ends in a path separator is answered with a 400-class
   response, and no file outside the data_agent directory is returned. *)
HasParentStep(p) ==
  \E i \in 1..(Len(p) - 1) :
    /\ p[i] = "." /\ p[i + 1] = "."
    /\ (i = 1 \/ p[i - 1] = "/")
    /\ (i + 1 = Len(p) \/ p[i + 2] = "/")

EndsInSeparator(p) == p # <<>> /\ p[Len(p)] = "/"

IsAbsolute(p) == p # <<>> /\ p[1] = "/"

C7_EscapingPathRejected ==
  (/\ req.route = "code"
   /\ req.arg # None
   /\ (HasParentStep(req.arg) \/ EndsInSeparator(req.arg) \/ IsAbsolute(req.arg)))
    => Is4xx(resp.status)

\* the part of C7 the handler does keep: what it returns is under data_agent
C7_ReturnsOnlyFromAllowedDir ==
  (req.route = "code" /\ resp.status = 200)
    => startswith(Tail(resp.body.content), allowed_dir)

(* C8 as claimed: login with a supplied user_id on an initialized server
   always creates a session and answers 200 with its id; on a server whose
   store or runner is missing it answers 500-class and creates none. *)
C8_LoginAlwaysCreates ==
  /\ (req.route = "login" /\ Initialized /\ req.body.kind = "object"
        /\ Truthy(req.body.user_id))
       => /\ resp.status = 200
          /\ \E s \in sessions : s.id = resp.body.session_id /\ s.app_name = APP_NAME
  /\ (req.route = "login" /\ ~Initialized) => (Is5xx(resp.status) /\ sessions = {})

(* C8, amended: login with a supplied user_id on an initialized server
   creates exactly one new session under the runner's application name and
   answers 200 with its id, unless the store's create_session raises, and
   then it creates none and answers 500; on a server whose store or runner is
   missing it answers 500-class, never 400, and creates none. *)
C8_LoginCreatesOneUnlessStoreRaises ==
  [][\A body \in LoginBodies, created \in BOOLEAN :
       Login(body, created) =>
         /\ (Initialized /\ body.kind = "object" /\ Truthy(body.user_id) /\ created)
              => /\ resp'.status = 200
                 /\ \E s \in sessions' \ sessions :
                      /\ sessions' = sessions \cup {s}
                      /\ s.app_name = APP_NAME
                      /\ s.id = resp'.body.session_id
         /\ (Initialized /\ body.kind = "object" /\ Truthy(body.user_id) /\ ~created)
              => (resp'.status = 500 /\ sessions' = sessions)
         /\ ~Initialized => (Is5xx(resp'.status) /\ sessions' = sessions)
    ]_vars

\* a login that added a second session to the store
C8_Witness ==
  /\ req.route = "login"
  /\ resp.status = 200
  /\ Cardinality(sessions) = 2
  /\ \E s \in sessions : s.id = resp.body.session_id

(* C9: a login without user_id, a table_data request without table_name and
   a code request without filepath are each answered with status 400, the
   login before any session is created; this whether or not the store would
   have raised had it been asked. *)
C9_AbsentFieldRejected ==
  [][/\ \A body \in LoginBodies, created \in BOOLEAN :
          (Login(body, created) /\ Initialized /\ body.kind = "object"
             /\ body.user_id = None /\ created)
            => (resp'.status = 400 /\ sessions' = sessions)
     /\ \A outcome \in GatewayOutcomes, d \in HandlerDurations :
          GetTableData(None, outcome, d) => resp'.status = 400
     /\ GetCodeFile(None) => resp'.status = 400
    ]_vars

(* C10: logout leaves the Session Store as it was, so that a logged-out
   session still exists for a later chat request, and it always answers 200. *)
C10_LogoutIsPureAcknowledgment ==
  [][\A body \in LogoutBodies :
       Logout(body) => (sessions' = sessions /\ resp'.status = 200)
    ]_vars

\* the part of C10 the handler does keep: no logout changes the store
C10_LogoutLeavesStore ==
  [][\A body \in LogoutBodies : Logout(body) => sessions' = sessions]_vars

(* C11: when a step of the start-up prompt assembly raises (the metadata
   fetch, the profile or sample fetch, serialization, the template load, the
   interpolation, KPI logging), the assembly ends there, the cached master
   prompt is the empty string, and the process goes on to create the app. *)
C11_Emptied == build.pc = "done" /\ CACHED_INSTRUCTIONS = <<>> /\ runner = "unbound"

C15_PromptBuiltOnce ==
  [][/\ build.pc = "done" => (build' = build /\ CACHED_INSTRUCTIONS' = CACHED_INSTRUCTIONS)
     /\ build.pc # "done" => CACHED_INSTRUCTIONS = None
     /\ ReturnInstructions => instructions' = CACHED_INSTRUCTIONS
     /\ instructions' # None => instructions' = CACHED_INSTRUCTIONS'
     /\ build'.pc = "done" =>
          CACHED_INSTRUCTIONS' = IF build'.raised = "none" THEN build'.final_prompt ELSE <<>>
    ]_vars

\* the instructions were returned, not empty, and requests were answered
C15_Witness ==
  /\ instructions # None
  /\ instructions # <<>>
  /\ instructions = build.final_prompt
  /\ req.route = "logout"
  /\ resp.status = 200

(* C20: in the start-up prompt assembly the sample fetch is made exactly when
   the profile fetch returned no profile (no profiles table configured, the
   query failed, or every row was filtered out); with profiles present no
   sample fetch is made and the samples placeholder is filled with []. *)
C20_AllFiltered(rows) ==
  \A i \in 1..Len(rows) :
    rows[i].percent_null.kind = "number" /\ rows[i].percent_null.value > 90

C20_SampleFetched(b) == \E i \in 1..Len(b.fetches) : b.fetches[i] = "samples"

C20_SamplesOnlyWithoutProfiles ==
  [][/\ \A env \in ProfileEnvs :
          (FetchProfiles(env) /\ build'.pc # "done") =>
            LET nothing == ~env.configured \/ ~env.query \/ C20_AllFiltered(env.rows)
            IN /\ nothing <=> build'.data_profiles = <<>>
               /\ nothing <=> build'.pc = "samples"
     /\ C20_SampleFetched(build') <=> (build.pc = "samples" \/ C20_SampleFetched(build))
     /\ build'.pc \in {"dumps", "template", "format", "save", "tokens", "kpis"} =>
          (C20_SampleFetched(build') <=> build'.data_profiles = <<>>)
     /\ (build'.pc \in {"template", "format", "save", "tokens", "kpis"}
           /\ build'.data_profiles # <<>>) => build'.strs.samples = <<"[", "]">>
     /\ (Interpolate /\ build'.pc = "save" /\ build.data_profiles # <<>>) =>
          build'.final_prompt \in
            { <<>>,
              <<"You answer with SQL. ">> \o build.strs.table_metadata
                 \o build.strs.data_profiles \o <<"[", "]">>,
              <<"Tables: ">> \o build.strs.table_metadata }
    ]_vars

\* profiles were there, no sample fetch was made, and the prompt ends in []
C20_Witness ==
  /\ build.pc = "done"
  /\ build.raised = "none"
  /\ build.data_profiles # <<>>
  /\ build.fetches = <<"metadata", "profiles">>
  /\ Len(build.final_prompt) > 3
  /\ SubSeq(build.final_prompt, Len(build.final_prompt) - 1, Len(build.final_prompt))
       = <<"[", "]">>

----------------------------------------------------------------------------
(* C12 *)

\* what one event leaves in test_query's locals
C12_After(e) ==
  [generated_sql |-> IF e.content # NoContent
                       THEN TestSql(test.generated_sql, e.content.parts)
                       ELSE test.generated_sql,
   llm_response |-> IF e.content # NoContent
                      THEN test.llm_response \o TextInTurn(e.content.parts)
                      ELSE test.llm_response]

\* the loop is left at the first event with an error or with SQL, and at no other
C12_StopsAtFirst(e) ==
  (pc' = "idle") <=> (Truthy(e.error_code) \/ Truthy(C12_After(e).generated_sql))

C12_AgentError(e) ==
  resp' = Json(400, [status |-> <<"AgentError">>,
                     error |-> <<e.error_code, e.error_message>>])
C12_Success(sql) == resp' = Json(200, [status |-> <<"Success">>, generated_sql |-> sql])
C12_Clarification(text) ==
  resp' = Json(200, [status |-> <<"ClarificationNeeded">>,
                     clarification_question |-> strip(text)])

\* C12 as stated: with both parameters supplied and the server initialized, an
\* error event is answered 400 AgentError; otherwise the answer is 200, Success
\* with the SQL when SQL was captured and ClarificationNeeded with the
\* accumulated text when none was; the stream is read up to the first event
\* that carries SQL or an error.
C12_TestQueryAnswers ==
  [][/\ consumed' # consumed => \A e \in TestEvents : TestEvent(e) =>
          /\ C12_StopsAtFirst(e)
          /\ Truthy(e.error_code) => C12_AgentError(e)
          /\ ~Truthy(e.error_code) /\ pc' = "idle" => C12_Success(C12_After(e).generated_sql)
     /\ TestFinish => C12_Clarification(test.llm_response)
    ]_vars

\* C12 as the code has it: as above, except that a stream that ends with no SQL
\* and no text is answered 200 Success with the SQL "No SQL generated.", the
\* clarification carries the text without its surrounding whitespace, and an
\* exception of the session store or of the stream is answered 500 "Internal
\* server error".
C12_TestQueryAnswersOrFallsBack ==
  [][/\ consumed' # consumed => \A e \in TestEvents : TestEvent(e) =>
          /\ C12_StopsAtFirst(e)
          /\ Truthy(e.error_code) => C12_AgentError(e)
          /\ ~Truthy(e.error_code) /\ pc' = "idle" => C12_Success(C12_After(e).generated_sql)
     /\ TestFinish =>
          IF test.llm_response # <<>> THEN C12_Clarification(test.llm_response)
          ELSE C12_Success(<<"No SQL generated.">>)
     /\ \A text \in ExceptionTexts : TestException(text) => resp' = TestInternalError
     /\ \A user, question \in TestArgs :
          TestStart(user, question, FALSE) /\ Initialized /\ Truthy(user) /\ Truthy(question)
            => resp' = TestInternalError
    ]_vars

\* a stream without SQL and without text was answered with the fallback
C12_Witness ==
  /\ req.route = "test_query"
  /\ consumed > 0
  /\ resp = Json(200, [status |-> <<"Success">>, generated_sql |-> <<"No SQL generated.">>])

----------------------------------------------------------------------------
(* C13 *)

\* the phases of one chat request
AWAIT_FIRST_EVENT == pc = "consuming" /\ consumed = 0
CONSUMING         == pc = "consuming" /\ consumed > 0

\* how the step that ends the request ended it
EXHAUSTED  == ChatFinish
ERROR_STOP == \/ \E e \in ErrorEvents : ChatEvent(e)
              \/ \E text \in ExceptionTexts : ChatException(text)

\* C13: a chat request awaits its first event, consumes events one by one and
\* ends in exactly one of two ways, the stream exhausted or stopped by an
\* error; runner.run_async is called at most once for it, and an agent error
\* or an exception ends the request without the message being submitted again.
C13_OneAgentRunPerRequest ==
  [][/\ agentCalls' <= 1
     /\ agentCalls' > agentCalls => pc = "idle" /\ AWAIT_FIRST_EVENT'
     /\ pc = "consuming" =>
          /\ agentCalls' = agentCalls
          /\ pc' = "consuming" => CONSUMING' /\ consumed' = consumed + 1
          /\ pc' # "consuming" => pc' = "idle" /\ (EXHAUSTED \/ ERROR_STOP)
                                   /\ ~(EXHAUSTED /\ ERROR_STOP)
          /\ ERROR_STOP => pc' = "idle" /\ resp' # NoResp
    ]_vars

\* a request that an agent error ended, after its one agent run
C13_Witness ==
  /\ req.route = "chat"
  /\ pc = "idle"
  /\ agentCalls = 1
  /\ Get(kpi_data, "agent_error") # NA

----------------------------------------------------------------------------
(* C14 *)

\* a string holds a control character
HasControl(s) == \E j \in 1..Len(s) : s[j] \in ControlChars

\* the string fields of the request being answered
C14_RequestFields ==
  IF req.route \in {"login", "logout", "chat"}
    THEN IF req.body.kind # "object" THEN {}
         ELSE {req.body.user_id}
                \cup (IF req.route = "login" THEN {} ELSE {req.body.session_id})
                \cup (IF req.route = "chat" /\ req.body.message.kind = "object"
                        THEN {req.body.message.message} ELSE {})
  ELSE IF req.route \in {"table_data", "code"} THEN {req.arg}
  ELSE IF req.route = "test_query" THEN {req.user_id, req.question}
  ELSE {}

\* C14: no line the handlers or the metadata gateway write to a log holds a
\* control character that came from a request field; in a line, the single
\* characters are those of request fields, so none of them is a control
\* character.
C14_NoControlCharLogged ==
  \A i \in 1..Len(log) : ~HasControl(log[i])

\* a request field with a control character in it was written to the log
C14_Witness ==
  /\ \E f \in C14_RequestFields : HasControl(f)
  /\ req.route = "table_data"
  /\ Len(log) >= 4

----------------------------------------------------------------------------
(* C16 *)

\* C16: every response, of whatever route and whether a success or an error,
\* has a Strict-Transport-Security header.
C16_EveryResponseHasHsts ==
  resp # NoResp => resp.hsts

----------------------------------------------------------------------------
(* C17 *)

\* C17: the events of a chat turn are handled one at a time in the order of
\* their arrival, and the output keeps that order: handling the next event
\* leaves the messages of the earlier events where they are and puts its own
\* message, if it has one, after them.
C17_OutputInArrivalOrder ==
  [][pc = "consuming" /\ resp'.status # 500 =>
       /\ consumed' \in {consumed, consumed + 1}
       /\ Len(Output') \in {Len(Output), Len(Output) + 1}
       /\ SubSeq(Output', 1, Len(Output)) = Output
       /\ Len(Output') > Len(Output) => consumed' = consumed + 1
    ]_vars

\* two events were handled and each left a message: the first event's text,
\* then the second event's SQL
C17_Witness ==
  /\ pc = "consuming"
  /\ consumed = 2
  /\ Len(final_response_parts) = 2
  /\ final_response_parts[1].content = <<"a">>
  /\ Contains(final_response_parts[2].content, <<"S">>)

----------------------------------------------------------------------------
(* C19 *)

\* C19: at every moment of a chat request each message of the output has a
\* content that is not empty and the role "model" or "assistant", and there
\* are no more messages than events consumed; a model event with neither SQL
\* nor text adds no message.
C19_NoEmptyMessage ==
  /\ \A i \in 1..Len(Output) :
       /\ Output[i].content # <<>>
       /\ Output[i].role \in {"model", "assistant"}
  /\ Len(Output) <= consumed

\* a model event was consumed and counted, and the output is still empty
C19_Witness ==
  /\ pc = "consuming"
  /\ consumed = 1
  /\ Get(kpi_data, "llm_round_trips") = 1
  /\ final_response_parts = <<>>

----------------------------------------------------------------------------
(* C18 *)

\* a complete (result, timestamp) pair
C18_CompletePair(entry) ==
  /\ DOMAIN entry = {"result", "timestamp"}
  /\ entry.result # NoResp
  /\ entry.timestamp \in 0..MaxClock

\* C18: the cache is written only by a request's store on line 96, which puts
\* that request's own result and the time of the store under its URL whatever
\* was there before, so the entry that remains is the one written last; and
\* whatever the interleaving, a URL has no entry or one complete pair.
C18_LastWriterWins ==
  [][/\ \A t \in ThreadIds : Store(t) =>
          tableDataCache' = Put(tableDataCache, threads[t].url,
                                [result |-> threads[t].result, timestamp |-> now])
     /\ tableDataCache' # tableDataCache => \E t \in ThreadIds : Store(t)
     /\ \A url \in DOMAIN tableDataCache' : C18_CompletePair(tableDataCache'[url])
    ]_vars

\* two requests to one URL both missed and both ran the handler, with
\* different results, and neither has stored yet
C18_Witness ==
  /\ ~Idle(1) /\ ~Idle(2)
  /\ threads[1].pc = "store" /\ threads[2].pc = "store"
  /\ threads[1].url = threads[2].url
  /\ threads[1].result # threads[2].result

----------------------------------------------------------------------------
(* C21 *)

\* C21: when saving the debug copy of the prompt fails, in cloud storage or in
\* the local temporary directory, the assembly goes on as it does when the
\* copy is saved: the prompt is untouched, and the prompt cached at the end
\* of an assembly in which nothing else raised is that fully built prompt.
C21_SaveFailureChangesNothing ==
  [][/\ \A target \in SaveTargets, written \in BOOLEAN :
          SaveForDebugging(target, written) =>
            /\ [build' EXCEPT !.saved = "no"] = [build EXCEPT !.pc = "tokens"]
            /\ build'.raised = "none"
            /\ build'.final_prompt = build.final_prompt
     /\ build'.pc = "done" /\ build'.raised = "none" =>
          /\ CACHED_INSTRUCTIONS' = build'.final_prompt
          /\ build'.saved \in SaveTargets \cup {"failed"}
    ]_vars

\* the copy could not be saved, the full prompt is cached, and start-up went
\* on to create the app
C21_Witness ==
  /\ build.pc = "done"
  /\ build.saved = "failed"
  /\ CACHED_INSTRUCTIONS = build.final_prompt
  /\ Len(CACHED_INSTRUCTIONS) > 3
  /\ runner = "Runner"

----------------------------------------------------------------------------
(* C22 *)

\* the session identifier the chat request supplied; None when its body has none
C22_Supplied ==
  IF req.body.kind = "object" THEN req.body.session_id ELSE None

\* the chat handler leaves the Session Store as it is
C22_ChatLeavesStore ==
  [][(pc = "consuming" \/ req'.route = "chat") => sessions' = sessions]_vars

\* C22: the session_id of every chat response made by the handler's own
\* returns of lines 238 and 244 (status 200 or 500) is the identifier the
\* request supplied, or the empty string when the request supplied none.
C22_SessionIdPassedThrough ==
  (req.route = "chat" /\ resp.status \in {200, 500} /\ "session_id" \in DOMAIN resp.body)
    => resp.body.session_id = IF C22_Supplied = None THEN <<>> ELSE C22_Supplied

----------------------------------------------------------------------------
(* C23 *)

\* the statuses with which a decorated handler reports a failure
C23_ErrorStatuses == {400, 500}

\* one request to a decorated route: store and store2 are wrapper.cache before
\* and after it
C23_Request(store, store2, url) ==
  /\ handlerRuns' = 1 =>
       /\ url \in DOMAIN store2
       /\ store2[url] = [result |-> resp', timestamp |-> now']
  /\ (/\ url \in DOMAIN store
      /\ store[url].result.status \in C23_ErrorStatuses
      /\ now - store[url].timestamp < Timeout) =>
       /\ resp' = store[url].result
       /\ handlerRuns' = 0
       /\ store2 = store

\* C23: the cache stores what the decorated handler returned whatever its
\* status; a stored 500 or 400 result of /api/tables or /api/table_data is the
\* answer, unchanged and without the handler running, to every later request
\* for the same URL until the timeout has elapsed.
C23_ErrorResultsAreCached ==
  [][/\ \A url \in TablesUrls, outcome \in GatewayOutcomes, d \in HandlerDurations :
          ListTables(url, outcome, d) => C23_Request(tablesCache, tablesCache', url)
     /\ \A arg \in TableNameInputs, outcome \in GatewayOutcomes, d \in HandlerDurations :
          GetTableData(arg, outcome, d)
            => C23_Request(tableDataCache, tableDataCache', TableDataUrl(arg))
    ]_vars

\* a 400 of /api/table_data answered from the cache at a later moment, while
\* the cache of /api/tables holds a 500
C23_Witness ==
  /\ req.route = "table_data"
  /\ handlerRuns = 0
  /\ resp.status = 400
  /\ req.url \in DOMAIN tableDataCache
  /\ resp = tableDataCache[req.url].result
  /\ now > tableDataCache[req.url].timestamp
  /\ \E url \in DOMAIN tablesCache : tablesCache[url].result.status = 500

----------------------------------------------------------------------------
(* C24 *)

\* C24: an agent error event that arrives after earlier model events is
\* answered 200 with the messages already appended for those events, in
\* their order, followed by the apology as the last element; an exception
\* raised while the stream is consumed is answered 500 with an empty messages
\* list, whatever had been accumulated.
C24_ErrorKeepsExceptionDiscards ==
  [][pc = "consuming" /\ pc' = "idle" =>
       /\ \A e \in ErrorEvents :
            ChatEvent(e) =>
              /\ resp'.status = 200
              /\ resp'.body.messages =
                   Append(final_response_parts, Apology(e.error_code))
              /\ resp'.body.messages[Len(resp'.body.messages)].role = "assistant"
       /\ \A text \in ExceptionTexts :
            ChatException(text) =>
              /\ resp'.status = 500
              /\ resp'.body.messages = <<>>
              /\ Output' = <<>>
    ]_vars

\* a 200 whose output is a model message followed by the apology
C24_Witness ==
  /\ req.route = "chat"
  /\ resp.status = 200
  /\ Truthy(Get(kpi_data, "agent_error"))
  /\ Len(resp.body.messages) = 2
  /\ resp.body.messages[1].role = "model"
  /\ resp.body.messages[2] = Apology(Get(kpi_data, "agent_error"))

\* a 500 with no message, for a request whose SQL message had been appended
C24_WitnessDiscarded ==
  /\ req.route = "chat"
  /\ resp.status = 500
  /\ sqlEvents >= 1
  /\ consumed >= 1
  /\ resp.body.messages = <<>>

====
